---------------------------- MODULE Spec2Model ----------------------------
(***************************************************************************)
(* A model of onnx-extractor: model ingestion (OnnxModel::load_from_bytes), *)
(* graph scheduling (OnnxModel::topological_order and                      *)
(* OnnxModel::execution_order), the type-declaration and attribute         *)
(* adapters, the tensor data accessors and the external-data loader.       *)
(*                                                                         *)
(* Rust vectors are 0-based; the sequences here are 1-based, so operation  *)
(* index i of the source is index i+1 here.  Relative order of indices is  *)
(* the same.                                                               *)
(***************************************************************************)
EXTENDS Integers, Sequences, FiniteSets, TLC

VARIABLES
    msg,          \* the decoded ModelProto handed to load_from_bytes
    loadResult,   \* what load_from_bytes returned: none yet, Ok or Err(kind)
    model,        \* the OnnxModel: tensors, operations, inputs, outputs
    alg,          \* which ordering function is running: idle, topo or exec
    indegree,     \* its local `indegree` vector
    queue,        \* its local `queue` (VecDeque<usize>), front first
    ordered,      \* its local `ordered`, as operation indices
    readyRound,   \* history: the loop iteration at which each operation
                  \* entered the frontier (0: initial frontier, -1: not yet)
    topoResult,   \* what topological_order returned
    execResult,   \* what execution_order returned
    arg,          \* the message handed to an adapter function
    ret,          \* what the adapter function returned for it
    dataResult,   \* the last tensor data query: receiver, accessor, outcome
    calls,        \* the number of tensor data queries made so far
    target,       \* the width in bits of `usize` on the build target
    files,        \* the directory of the loader: location -> file bytes
    cache,        \* ExternalDataLoader.cache: location -> file bytes
    reads,        \* history: how often each location's file was read
    extResult,    \* the last load_data request and its outcome
    borrow,       \* the borrow state of the RefCell around the cache
    frame         \* the activation of load_data: position and locals

queryVars == <<arg, ret, dataResult, calls>>
extVars == <<target, files, cache, reads, extResult, borrow, frame>>

vars == <<msg, loadResult, model, alg, indegree, queue, ordered, readyRound,
          topoResult, execResult, queryVars, extVars>>

\* no adapter call and no tensor data query has been made
QueriesIdle ==
    /\ arg = <<>>
    /\ ret = <<>>
    /\ dataResult = <<>>
    /\ calls = 0

\* no external-data loader exists
LoaderIdle ==
    /\ target = 0
    /\ files = <<>>
    /\ cache = <<>>
    /\ reads = <<>>
    /\ extResult = <<>>
    /\ borrow = <<>>
    /\ frame = <<>>

loadVars == <<msg, loadResult>>
orderVars == <<alg, indegree, queue, ordered, readyRound, topoResult, execResult>>

----------------------------------------------------------------------------
(* Bounds *)

\* the largest number of operations of a model the orderings are run on
MaxOps == 3

\* the input lists an operation is drawn from: "x" is the declared model
\* input, "t" and "u" are tensors operations may produce, "" is an unused
\* optional slot
OpInputs ==
    { <<>>, <<"t">>, <<"", "u", "u">>, <<"t", "x">> }

\* the output lists an operation is drawn from
OpOutputs ==
    { <<>>, <<"t">>, <<"t", "u">>, <<"", "u", "u">> }

\* the largest number of entries (initializers, value_info, graph inputs,
\* graph outputs and nodes together) of a graph message handed to load
MaxDecls == 3

\* the tensor names of graph messages; "" is an absent or empty name
LoadNames == { "", "W", "X" }

----------------------------------------------------------------------------
(* Sequence helpers *)

Range(s) == { s[k] : k \in DOMAIN s }

RECURSIVE Flatten(_)
Flatten(ss) == IF ss = <<>> THEN <<>> ELSE Head(ss) \o Flatten(Tail(ss))

\* k copies of v
Repeat(v, k) == [j \in 1..k |-> v]

\* the number of entries of s equal to v
Count(s, v) == Cardinality({ k \in DOMAIN s : s[k] = v })

----------------------------------------------------------------------------
(* The producer / consumer index shared by both orderings *)

\* producer.contains_key(name): some operation lists the non-empty name as
\* an output
HasProducer(ops, name) ==
    /\ name # ""
    /\ \E i \in DOMAIN ops : name \in Range(ops[i].outputs)

\* producer[name]: the first operation declaring it (entry().or_insert)
producer(ops, name) ==
    CHOOSE i \in DOMAIN ops :
        /\ name \in Range(ops[i].outputs)
        /\ \A j \in DOMAIN ops : name \in Range(ops[j].outputs) => i <= j

\* consumers[name]: the operation indices listing the name as an input, in
\* operation order, one entry per occurrence; empty for the empty name and
\* for names nobody consumes
consumers(ops, name) ==
    IF name = "" THEN <<>>
    ELSE Flatten([i \in DOMAIN ops |-> Repeat(i, Count(ops[i].inputs, name))])

\* a variant of InitialIndegree that counts every non-empty input, produced
\* or not
InitialIndegreeAllInputs(ops) ==
    [i \in DOMAIN ops |->
        Cardinality({ k \in DOMAIN ops[i].inputs : ops[i].inputs[k] # "" })]

\* indegree[idx]: the non-empty inputs of the operation that have a producer,
\* counted per occurrence
InitialIndegree(ops) ==
    [i \in DOMAIN ops |->
        Cardinality({ k \in DOMAIN ops[i].inputs :
                        HasProducer(ops, ops[i].inputs[k]) })]

\* the indegree-0 operations in index order
ZeroIndegree(deg) == SelectSeq([i \in DOMAIN deg |-> i], LAMBDA i : deg[i] = 0)

\* a variant of Visits that scans the outputs from the last to the first
VisitsLastOutputFirst(ops, idx) ==
    Flatten([k \in DOMAIN ops[idx].outputs |->
                consumers(ops, ops[idx].outputs[Len(ops[idx].outputs) + 1 - k])])

\* the consumer entries the inner loops visit when operation idx is popped:
\* for each non-empty output in order, that output's consumer list
Visits(ops, idx) ==
    Flatten([k \in DOMAIN ops[idx].outputs |->
                consumers(ops, ops[idx].outputs[k])])

\* a variant of Release that decrements on every visit
RECURSIVE ReleaseEveryVisit(_, _, _)
ReleaseEveryVisit(deg, visits, ready) ==
    IF visits = <<>> THEN [indegree |-> deg, ready |-> ready]
    ELSE LET c == Head(visits) IN
         ReleaseEveryVisit([deg EXCEPT ![c] = deg[c] - 1], Tail(visits),
                           IF deg[c] - 1 = 0 THEN Append(ready, c) ELSE ready)

\* the inner loops over a visit list: decrement a positive indegree, and
\* collect the operation when it reaches 0
RECURSIVE Release(_, _, _)
Release(deg, visits, ready) ==
    IF visits = <<>> THEN [indegree |-> deg, ready |-> ready]
    ELSE LET c == Head(visits) IN
         IF deg[c] > 0
         THEN Release([deg EXCEPT ![c] = deg[c] - 1], Tail(visits),
                      IF deg[c] - 1 = 0 THEN Append(ready, c) ELSE ready)
         ELSE Release(deg, Tail(visits), ready)

\* op.inputs.iter().any(|input| self.inputs.contains(input))
consumes_input(m, idx) ==
    \E k \in DOMAIN m.operations[idx].inputs :
        m.operations[idx].inputs[k] \in Range(m.inputs)

\* a variant of SortReady that leaves the list as collected
SortReadyUnsorted(m, ready) == ready

\* sort_by_key(|idx| !consumes_input): a stable sort on a boolean key
SortReady(m, ready) ==
    SelectSeq(ready, LAMBDA i : consumes_input(m, i))
        \o SelectSeq(ready, LAMBDA i : ~consumes_input(m, i))

\* the push loop of execution_order over the sorted newly-ready list
RECURSIVE PushReady(_, _, _)
PushReady(m, q, ready) ==
    IF ready = <<>> THEN q
    ELSE LET c == Head(ready) IN
         IF consumes_input(m, c)
         THEN PushReady(m, <<c>> \o q, Tail(ready))
         ELSE PushReady(m, Append(q, c), Tail(ready))

\* a variant of Finish that accepts an order that is at most one operation
\* short
FinishLenient(ops, ord) ==
    IF Len(ord) + 1 < Len(ops)
    THEN [status |-> "Err", error |-> "InvalidModel", order |-> <<>>]
    ELSE [status |-> "Ok", error |-> "", order |-> ord]

\* the final length test of both orderings
Finish(ops, ord) ==
    IF Len(ord) # Len(ops)
    THEN [status |-> "Err", error |-> "InvalidModel", order |-> <<>>]
    ELSE [status |-> "Ok", error |-> "", order |-> ord]

NoResult == [status |-> "none", error |-> "", order |-> <<>>]

----------------------------------------------------------------------------
(* Models the orderings are run on *)

NoModel == [tensors |-> <<>>, operations |-> <<>>, inputs |-> <<>>,
            outputs |-> <<>>]

NoGraph == [initializer |-> <<>>, value_info |-> <<>>, input |-> <<>>,
            output |-> <<>>, node |-> <<>>]

NoMsg == [hasGraph |-> FALSE, graph |-> NoGraph]

NoLoad == [status |-> "none", kind |-> "", tag |-> 0]

\* an OnnxOperation with the given input and output lists
Operation(ins, outs) ==
    [name |-> "", op_type |-> "", inputs |-> ins, outputs |-> outs,
     attributes |-> <<>>]

Operations == { Operation(ins, outs) : ins \in OpInputs, outs \in OpOutputs }

\* a model with the given operations and the one declared model input "x"
OrderModel(ops) ==
    [tensors |-> <<>>, operations |-> ops, inputs |-> <<"x">>,
     outputs |-> <<>>]

----------------------------------------------------------------------------
(* topological_order *)

CallTopologicalOrder ==
    /\ alg = "idle"
    /\ topoResult.status = "none"
    /\ LET deg == InitialIndegree(model.operations) IN
       /\ indegree' = deg
       /\ queue' = ZeroIndegree(deg)
       /\ readyRound' = [i \in DOMAIN deg |-> IF deg[i] = 0 THEN 0 ELSE -1]
    /\ ordered' = <<>>
    /\ alg' = "topo"
    /\ UNCHANGED <<msg, loadResult, model, topoResult, execResult>>
    /\ UNCHANGED <<queryVars, extVars>>

\* one iteration of `while let Some(idx) = queue.pop_front()`
TopoStep ==
    /\ alg = "topo"
    /\ queue # <<>>
    /\ LET idx == Head(queue)
           r == Release(indegree, Visits(model.operations, idx), <<>>)
       IN
       /\ ordered' = Append(ordered, idx)
       /\ indegree' = r.indegree
       /\ queue' = Tail(queue) \o r.ready
       /\ readyRound' = [i \in DOMAIN readyRound |->
                            IF i \in Range(r.ready) THEN Len(ordered) + 1
                            ELSE readyRound[i]]
    /\ UNCHANGED <<msg, loadResult, model, alg, topoResult, execResult>>
    /\ UNCHANGED <<queryVars, extVars>>

TopoReturn ==
    /\ alg = "topo"
    /\ queue = <<>>
    /\ topoResult' = Finish(model.operations, ordered)
    /\ alg' = "idle"
    /\ UNCHANGED <<msg, loadResult, model, indegree, queue, ordered,
                   readyRound, execResult>>
    /\ UNCHANGED <<queryVars, extVars>>

----------------------------------------------------------------------------
(* execution_order *)

\* Both orderings take the model by shared reference and keep their working
\* state in locals, so neither can affect the other: the client modelled
\* calls topological_order first and execution_order after it has returned.
CallExecutionOrder ==
    /\ alg = "idle"
    /\ topoResult.status # "none"
    /\ execResult.status = "none"
    /\ LET deg == InitialIndegree(model.operations) IN
       /\ indegree' = deg
       /\ queue' = SortReady(model, ZeroIndegree(deg))
       /\ readyRound' = [i \in DOMAIN deg |-> IF deg[i] = 0 THEN 0 ELSE -1]
    /\ ordered' = <<>>
    /\ alg' = "exec"
    /\ UNCHANGED <<msg, loadResult, model, topoResult, execResult>>
    /\ UNCHANGED <<queryVars, extVars>>

ExecStep ==
    /\ alg = "exec"
    /\ queue # <<>>
    /\ LET idx == Head(queue)
           r == Release(indegree, Visits(model.operations, idx), <<>>)
       IN
       /\ ordered' = Append(ordered, idx)
       /\ indegree' = r.indegree
       /\ queue' = PushReady(model, Tail(queue), SortReady(model, r.ready))
       /\ readyRound' = [i \in DOMAIN readyRound |->
                            IF i \in Range(r.ready) THEN Len(ordered) + 1
                            ELSE readyRound[i]]
    /\ UNCHANGED <<msg, loadResult, model, alg, topoResult, execResult>>
    /\ UNCHANGED <<queryVars, extVars>>

ExecReturn ==
    /\ alg = "exec"
    /\ queue = <<>>
    /\ execResult' = Finish(model.operations, ordered)
    /\ alg' = "idle"
    /\ UNCHANGED <<msg, loadResult, model, indegree, queue, ordered,
                   readyRound, topoResult>>
    /\ UNCHANGED <<queryVars, extVars>>

----------------------------------------------------------------------------
(* The scheduling specification: the two orderings on every bounded model *)

\* the orderings are run on every model of up to MaxOps operations
InitOrder ==
    /\ msg = NoMsg
    /\ loadResult = [status |-> "Ok", kind |-> "", tag |-> 0]
    /\ \E n \in 1..MaxOps : \E ops \in [1..n -> Operations] :
          model = OrderModel(ops)
    /\ alg = "idle"
    /\ indegree = <<>>
    /\ queue = <<>>
    /\ ordered = <<>>
    /\ readyRound = <<>>
    /\ topoResult = NoResult
    /\ execResult = NoResult
    /\ QueriesIdle
    /\ LoaderIdle

NextOrder ==
    \/ CallTopologicalOrder
    \/ TopoStep
    \/ TopoReturn
    \/ CallExecutionOrder
    \/ ExecStep
    \/ ExecReturn

SpecOrder == InitOrder /\ [][NextOrder]_vars

----------------------------------------------------------------------------
(* Decoded messages *)

\* a TensorProto; an absent name reads as "" (unwrap_or_default)
TensorProto(name, dt, raw, ext) ==
    [name |-> name, dims |-> <<Len(raw)>>, data_type |-> dt,
     raw_data |-> raw, external_data |-> ext]

\* the proto slot of a tensor built from a type declaration (None)
NoProto == [present |-> FALSE, raw_data |-> <<>>]

\* a ValueInfoProto whose type is a tensor type with the given element type
\* and no shape, or (kind "sequence") is not a tensor type
ValueInfo(name, kind, elem) ==
    [name |-> name,
     type |-> [kind |-> kind, has_elem_type |-> TRUE, elem_type |-> elem,
               has_shape |-> FALSE, dim |-> <<>>]]

\* an AttributeProto: name, type tag (present), the int payload i, the bytes
\* payload s, whether the tensor payload t is present, the byte strings
\* payload
Attribute(name, type, s, has_t, strings) ==
    [name |-> name, has_type |-> TRUE, type |-> type, i |-> 7, s |-> s,
     has_t |-> has_t, strings |-> strings]

\* a NodeProto with the given attributes
Node(attrs) ==
    [name |-> "N", op_type |-> "Identity", input |-> <<"W">>,
     output |-> <<"Y">>, attribute |-> attrs]

\* the initializers drawn: with raw bytes, with no payload at all, and with
\* external-data metadata
InitializerProtos ==
    { TensorProto(n, 1, <<0, 0, 0, 0>>, <<>>) : n \in LoadNames }
    \cup { TensorProto(n, 1, <<>>, <<>>) : n \in LoadNames }
    \cup { TensorProto(n, 1, <<>>, <<[key |-> "location", value |-> "w.bin"]>>) :
             n \in LoadNames }

\* the type declarations drawn, for value_info, graph inputs and graph
\* outputs: a non-tensor type, and tensor types of element type FLOAT (1)
\* and INT64 (7).  Every tensor type drawn has an element type the adapter
\* accepts.
ValueInfos ==
    { ValueInfo(n, "sequence", 1) : n \in LoadNames }
    \cup { ValueInfo(n, "tensor", e) : n \in LoadNames, e \in {1, 7} }

\* the attribute lists of the nodes drawn: a good named attribute, a good
\* unnamed one, an unknown type tag (named and unnamed), a string that is not
\* UTF-8, a tensor attribute without its tensor, and a failure behind a good
\* attribute
NodeAttributes ==
    { <<>>,
      << Attribute("a", 2, <<>>, FALSE, <<>>) >>,
      << Attribute("", 3, <<104>>, FALSE, <<>>) >>,
      << Attribute("a", 0, <<>>, FALSE, <<>>) >>,
      << Attribute("", 9, <<>>, FALSE, <<>>) >>,
      << Attribute("", 3, <<255>>, FALSE, <<>>) >>,
      << Attribute("a", 4, <<>>, FALSE, <<>>) >>,
      << Attribute("a", 8, <<>>, FALSE, << <<104>> >>),
         Attribute("", 8, <<>>, FALSE, << <<104>>, <<255>> >>) >> }

NodeProtos == { Node(attrs) : attrs \in NodeAttributes }

\* the section sizes of a graph of at most MaxDecls entries
SectionSizes ==
    { z \in [1..5 -> 0..MaxDecls] : z[1] + z[2] + z[3] + z[4] + z[5] <= MaxDecls }

\* the message with a graph section holding the given five lists
GraphMsg(a, b, c, d, e) ==
    [hasGraph |-> TRUE,
     graph |-> [initializer |-> a, value_info |-> b, input |-> c,
                output |-> d, node |-> e]]

----------------------------------------------------------------------------
(* Adapters *)

Ok(v) == [status |-> "Ok", kind |-> "", tag |-> 0, value |-> v]

Err(kind, tag, v) == [status |-> "Err", kind |-> kind, tag |-> tag, value |-> v]

\* DataType::from_onnx_type
from_onnx_type(data_type) ==
    CASE data_type = 1 -> [variant |-> "Float32", code |-> 0]
      [] data_type = 2 -> [variant |-> "Uint8", code |-> 0]
      [] data_type = 3 -> [variant |-> "Int8", code |-> 0]
      [] data_type = 4 -> [variant |-> "Uint16", code |-> 0]
      [] data_type = 5 -> [variant |-> "Int16", code |-> 0]
      [] data_type = 6 -> [variant |-> "Int32", code |-> 0]
      [] data_type = 7 -> [variant |-> "Int64", code |-> 0]
      [] data_type = 8 -> [variant |-> "String", code |-> 0]
      [] data_type = 9 -> [variant |-> "Bool", code |-> 0]
      [] data_type = 10 -> [variant |-> "Float16", code |-> 0]
      [] data_type = 11 -> [variant |-> "Float64", code |-> 0]
      [] data_type = 12 -> [variant |-> "Uint32", code |-> 0]
      [] data_type = 13 -> [variant |-> "Uint64", code |-> 0]
      [] data_type = 14 -> [variant |-> "Complex64", code |-> 0]
      [] data_type = 15 -> [variant |-> "Complex128", code |-> 0]
      [] data_type = 16 -> [variant |-> "BFloat16", code |-> 0]
      [] OTHER -> [variant |-> "Unknown", code |-> data_type]

\* OnnxTensor::new
OnnxTensor(name, shape, data_type, proto) ==
    [name |-> name, shape |-> shape, data_type |-> data_type, proto |-> proto]

NoTensor == OnnxTensor("", <<>>, from_onnx_type(0), NoProto)

\* TensorInfo::from_tensor_proto as load_from_bytes calls it, with no
\* external-data loader: a message carrying external-data metadata is an
\* InvalidModel error, any other message becomes a tensor that keeps its
\* payload
from_tensor_proto(tensor) ==
    IF tensor.external_data # <<>>
    THEN Err("InvalidModel", 0, NoTensor)
    ELSE Ok(OnnxTensor(tensor.name, tensor.dims,
                       from_onnx_type(tensor.data_type),
                       [present |-> TRUE, raw_data |-> tensor.raw_data]))

\* a variant of from_tensor_type that keeps only the dimensions with a
\* literal value
from_tensor_type_literal_dims(name, tensor_type) ==
    LET shape == IF tensor_type.has_shape
                 THEN LET lit == SelectSeq(tensor_type.dim,
                                           LAMBDA d : d.has_value)
                      IN [k \in DOMAIN lit |-> lit[k].value]
                 ELSE <<>>
    IN IF ~tensor_type.has_elem_type
       THEN Err("MissingField", 0, NoTensor)
       ELSE IF tensor_type.elem_type = 0
       THEN Err("InvalidModel", 0, NoTensor)
       ELSE Ok(OnnxTensor(name, shape, from_onnx_type(tensor_type.elem_type),
                          NoProto))

\* a variant of from_tensor_type that accepts the element type UNDEFINED
from_tensor_type_undefined_ok(name, tensor_type) ==
    LET shape == IF tensor_type.has_shape
                 THEN [k \in DOMAIN tensor_type.dim |->
                          IF tensor_type.dim[k].has_value
                          THEN tensor_type.dim[k].value ELSE -1]
                 ELSE <<>>
    IN IF ~tensor_type.has_elem_type
       THEN Err("MissingField", 0, NoTensor)
       ELSE Ok(OnnxTensor(name, shape, from_onnx_type(tensor_type.elem_type),
                          NoProto))

\* OnnxTensor::from_tensor_type: a missing shape is the empty sequence, a
\* dimension without a literal value is -1; a missing element type and the
\* element type UNDEFINED (0) are errors
from_tensor_type(name, tensor_type) ==
    LET shape == IF tensor_type.has_shape
                 THEN [k \in DOMAIN tensor_type.dim |->
                          IF tensor_type.dim[k].has_value
                          THEN tensor_type.dim[k].value ELSE -1]
                 ELSE <<>>
    IN IF ~tensor_type.has_elem_type
       THEN Err("MissingField", 0, NoTensor)
       ELSE IF tensor_type.elem_type = 0
       THEN Err("InvalidModel", 0, NoTensor)
       ELSE Ok(OnnxTensor(name, shape, from_onnx_type(tensor_type.elem_type),
                          NoProto))

\* String::from_utf8 succeeds; exact on the byte strings drawn here, which
\* hold ASCII bytes and the byte 0xFF
Utf8Valid(bytes) == \A k \in DOMAIN bytes : bytes[k] < 128

\* a variant of parse_attribute_proto that reads an unknown type tag as an
\* empty list of ints
parse_attribute_proto_lenient(attr) ==
    LET attr_type == IF attr.has_type THEN attr.type ELSE 0 IN
    CASE attr_type = 1 -> Ok([variant |-> "Float"])
      [] attr_type = 2 -> Ok([variant |-> "Int", i |-> attr.i])
      [] attr_type = 3 ->
            IF Utf8Valid(attr.s)
            THEN Ok([variant |-> "String", s |-> attr.s])
            ELSE Err("Utf8", 0, [variant |-> "none"])
      [] attr_type = 4 ->
            IF attr.has_t
            THEN Ok([variant |-> "Tensor"])
            ELSE Err("MissingField", 0, [variant |-> "none"])
      [] attr_type = 6 -> Ok([variant |-> "Floats"])
      [] attr_type = 8 ->
            IF \A k \in DOMAIN attr.strings : Utf8Valid(attr.strings[k])
            THEN Ok([variant |-> "Strings", strings |-> attr.strings])
            ELSE Err("Utf8", 0, [variant |-> "none"])
      [] OTHER -> Ok([variant |-> "Ints"])

\* parse_attribute_proto; an absent type tag reads as 0 (unwrap_or), and the
\* Unsupported error carries the numeric tag
parse_attribute_proto(attr) ==
    LET attr_type == IF attr.has_type THEN attr.type ELSE 0 IN
    CASE attr_type = 1 -> Ok([variant |-> "Float"])
      [] attr_type = 2 -> Ok([variant |-> "Int", i |-> attr.i])
      [] attr_type = 3 ->
            IF Utf8Valid(attr.s)
            THEN Ok([variant |-> "String", s |-> attr.s])
            ELSE Err("Utf8", 0, [variant |-> "none"])
      [] attr_type = 4 ->
            IF attr.has_t
            THEN Ok([variant |-> "Tensor"])
            ELSE Err("MissingField", 0, [variant |-> "none"])
      [] attr_type = 6 -> Ok([variant |-> "Floats"])
      [] attr_type = 7 -> Ok([variant |-> "Ints"])
      [] attr_type = 8 ->
            IF \A k \in DOMAIN attr.strings : Utf8Valid(attr.strings[k])
            THEN Ok([variant |-> "Strings", strings |-> attr.strings])
            ELSE Err("Utf8", 0, [variant |-> "none"])
      [] OTHER -> Err("Unsupported", attr_type, [variant |-> "none"])

\* HashMap::insert on a map kept as a function from its keys
Insert(map, key, value) ==
    [k \in (DOMAIN map) \cup {key} |-> IF k = key THEN value ELSE map[k]]

\* a variant of ParseAttributes that parses only the attributes it will store
RECURSIVE ParseNamedAttributes(_, _)
ParseNamedAttributes(attrs, attributes) ==
    IF attrs = <<>> THEN Ok(attributes)
    ELSE LET attr == Head(attrs) IN
         IF attr.name = "" THEN ParseNamedAttributes(Tail(attrs), attributes)
         ELSE LET value == parse_attribute_proto(attr) IN
              IF value.status = "Err"
              THEN Err(value.kind, value.tag, <<>>)
              ELSE ParseNamedAttributes(Tail(attrs),
                       Insert(attributes, attr.name, value.value))

\* the attribute loop of operation_from_node_proto: each attribute is parsed,
\* an error returns at once, and the value is stored under a non-empty name
RECURSIVE ParseAttributes(_, _)
ParseAttributes(attrs, attributes) ==
    IF attrs = <<>> THEN Ok(attributes)
    ELSE LET attr == Head(attrs)
             value == parse_attribute_proto(attr)
         IN IF value.status = "Err"
            THEN Err(value.kind, value.tag, <<>>)
            ELSE ParseAttributes(Tail(attrs),
                     IF attr.name # ""
                     THEN Insert(attributes, attr.name, value.value)
                     ELSE attributes)

\* operation_from_node_proto
operation_from_node_proto(node) ==
    LET attributes == ParseAttributes(node.attribute, <<>>) IN
    IF attributes.status = "Err"
    THEN Err(attributes.kind, attributes.tag, Operation(<<>>, <<>>))
    ELSE Ok([name |-> node.name, op_type |-> node.op_type,
             inputs |-> node.input, outputs |-> node.output,
             attributes |-> attributes.value])

----------------------------------------------------------------------------
(* load_from_bytes *)

\* a variant of initializer_names that collects nothing
initializer_names_none(graph) == {}

\* the non-empty initializer names, collected first
initializer_names(graph) ==
    { graph.initializer[k].name : k \in DOMAIN graph.initializer } \ { "" }

\* inputs: the non-empty graph-input names that are no initializer name
extract_inputs(graph) ==
    SelectSeq([k \in DOMAIN graph.input |-> graph.input[k].name],
              LAMBDA name : name # "" /\ name \notin initializer_names(graph))

\* outputs: every graph-output name
extract_outputs(graph) ==
    [k \in DOMAIN graph.output |-> graph.output[k].name]

\* the initializer pass: each tensor is converted, an error returns at once,
\* and the tensor is stored under a non-empty name
RECURSIVE parse_initializers(_, _)
parse_initializers(initializer, tensors) ==
    IF initializer = <<>> THEN Ok(tensors)
    ELSE LET tensor == Head(initializer)
             tensor_info == from_tensor_proto(tensor)
         IN IF tensor_info.status = "Err"
            THEN Err(tensor_info.kind, tensor_info.tag, <<>>)
            ELSE parse_initializers(Tail(initializer),
                     IF tensor.name # ""
                     THEN Insert(tensors, tensor.name, tensor_info.value)
                     ELSE tensors)

\* a variant of parse_type_declarations that keeps an entry already in
\* `tensors`
RECURSIVE parse_type_declarations_keep(_, _)
parse_type_declarations_keep(infos, tensors) ==
    IF infos = <<>> THEN tensors
    ELSE LET info == Head(infos) IN
         parse_type_declarations_keep(Tail(infos),
             IF /\ info.type.kind = "tensor"
                /\ info.name # ""
                /\ info.name \notin DOMAIN tensors
             THEN Insert(tensors, info.name,
                         from_tensor_type(info.name, info.type).value)
             ELSE tensors)

\* one of the three type-declaration passes (value_info, graph inputs, graph
\* outputs): an entry with a tensor type and a non-empty name stores the
\* tensor built from the type, over whatever the name held
RECURSIVE parse_type_declarations(_, _)
parse_type_declarations(infos, tensors) ==
    IF infos = <<>> THEN tensors
    ELSE LET info == Head(infos) IN
         parse_type_declarations(Tail(infos),
             IF info.type.kind = "tensor" /\ info.name # ""
             THEN Insert(tensors, info.name,
                         from_tensor_type(info.name, info.type).value)
             ELSE tensors)

\* the node pass: each node is converted, an error returns at once
RECURSIVE parse_nodes(_, _)
parse_nodes(node, operations) ==
    IF node = <<>> THEN Ok(operations)
    ELSE LET operation == operation_from_node_proto(Head(node)) IN
         IF operation.status = "Err"
         THEN Err(operation.kind, operation.tag, <<>>)
         ELSE parse_nodes(Tail(node), Append(operations, operation.value))

\* load_from_bytes once the graph section is in hand
load_graph(graph) ==
    LET initializers == parse_initializers(graph.initializer, <<>>) IN
    IF initializers.status = "Err"
    THEN Err(initializers.kind, initializers.tag, NoModel)
    ELSE LET tensors ==
                 parse_type_declarations(graph.output,
                     parse_type_declarations(graph.input,
                         parse_type_declarations(graph.value_info,
                                                 initializers.value)))
             operations == parse_nodes(graph.node, <<>>)
         IN IF operations.status = "Err"
            THEN Err(operations.kind, operations.tag, NoModel)
            ELSE Ok([tensors |-> tensors, operations |-> operations.value,
                     inputs |-> extract_inputs(graph),
                     outputs |-> extract_outputs(graph)])

\* a variant of load_from_bytes that reads a missing graph as an empty one
load_from_bytes_default_graph(m) == load_graph(m.graph)

\* load_from_bytes on a decoded message
load_from_bytes(m) ==
    IF ~m.hasGraph
    THEN Err("InvalidModel", 0, NoModel)
    ELSE load_graph(m.graph)

Load ==
    /\ loadResult.status = "none"
    /\ LET r == load_from_bytes(msg) IN
       /\ loadResult' = [status |-> r.status, kind |-> r.kind, tag |-> r.tag]
       /\ model' = r.value
    /\ UNCHANGED <<msg, alg, indegree, queue, ordered, readyRound,
                   topoResult, execResult>>
    /\ UNCHANGED <<queryVars, extVars>>

----------------------------------------------------------------------------
(* The ingestion specification: load on every bounded message *)

\* load is run on the message without a graph section and on every graph of
\* at most MaxDecls entries
InitLoad ==
    /\ \/ msg = NoMsg
       \/ \E z \in SectionSizes :
            \E a \in [1..z[1] -> InitializerProtos],
               b \in [1..z[2] -> ValueInfos],
               c \in [1..z[3] -> ValueInfos],
               d \in [1..z[4] -> ValueInfos],
               e \in [1..z[5] -> NodeProtos] :
                msg = GraphMsg(a, b, c, d, e)
    /\ loadResult = NoLoad
    /\ model = NoModel
    /\ alg = "idle"
    /\ indegree = <<>>
    /\ queue = <<>>
    /\ ordered = <<>>
    /\ readyRound = <<>>
    /\ topoResult = NoResult
    /\ execResult = NoResult
    /\ QueriesIdle
    /\ LoaderIdle

NextLoad == Load

SpecLoad == InitLoad /\ [][NextLoad]_vars

----------------------------------------------------------------------------
(* Graph notions the scheduling properties are stated with *)

\* operation p declares as an output a non-empty name that operation c lists
\* as an input
Feeds(ops, p, c) ==
    \E name \in Range(ops[p].outputs) \cap Range(ops[c].inputs) : name # ""

\* what is left of a set of operations after repeatedly removing those that
\* no operation still in the set feeds
RECURSIVE PeelUnfed(_, _)
PeelUnfed(ops, S) ==
    LET free == { c \in S : ~\E p \in S : Feeds(ops, p, c) } IN
    IF free = {} THEN S ELSE PeelUnfed(ops, S \ free)

\* the graph with an edge from p to c when p Feeds c has a cycle (an
\* operation feeding itself included): some operations are left, each fed
\* by another of those left
HasCycle(ops) == PeelUnfed(ops, DOMAIN ops) # {}

\* position of operation i in an order (0 when absent)
Pos(order, i) ==
    IF i \in Range(order)
    THEN CHOOSE k \in DOMAIN order : order[k] = i
    ELSE 0

\* every other operation feeding the operation at a position comes earlier
ProducersFirst(ops, order) ==
    \A i \in DOMAIN order : \A p \in DOMAIN ops :
        (p # order[i] /\ Feeds(ops, p, order[i]))
            => \E j \in 1..(i - 1) : order[j] = p

\* the order lists every operation exactly once
IsPermutation(ops, order) ==
    /\ Len(order) = Len(ops)
    /\ \A i \in DOMAIN ops : Count(order, i) = 1

\* some tensor name is declared as an output at two output slots
DuplicateOutput(ops) ==
    \E i, j \in DOMAIN ops : \E a \in DOMAIN ops[i].outputs :
        \E b \in DOMAIN ops[j].outputs :
            /\ <<i, a>> # <<j, b>>
            /\ ops[i].outputs[a] # ""
            /\ ops[i].outputs[a] = ops[j].outputs[b]

----------------------------------------------------------------------------
(* Scheduling properties *)

\* C1: whenever topological_order returns Ok, every other operation that
\* declares one of an operation's non-empty inputs as an output comes before
\* it in the result, on every model (duplicate producers included).
C1_TopoProducersFirst ==
    topoResult.status = "Ok"
        => ProducersFirst(model.operations, topoResult.order)

\* C2: whenever execution_order returns Ok, every other operation that
\* declares one of an operation's non-empty inputs as an output comes before
\* it in the result.
C2_ExecProducersFirst ==
    execResult.status = "Ok"
        => ProducersFirst(model.operations, execResult.order)

\* C3: on a model whose operation graph has no cycle, each ordering that has
\* returned has returned Ok with every operation exactly once.
C3_AcyclicOrdersAll ==
    /\ (topoResult.status # "none" /\ ~HasCycle(model.operations)) =>
          /\ topoResult.status = "Ok"
          /\ IsPermutation(model.operations, topoResult.order)
    /\ (execResult.status # "none" /\ ~HasCycle(model.operations)) =>
          /\ execResult.status = "Ok"
          /\ IsPermutation(model.operations, execResult.order)

\* an acyclic model of MaxOps operations with a dependency and with a
\* duplicated output name, on which both orderings have returned Ok
C3_Witness ==
    /\ ~HasCycle(model.operations)
    /\ Len(model.operations) = MaxOps
    /\ \E p, c \in DOMAIN model.operations : Feeds(model.operations, p, c)
    /\ DuplicateOutput(model.operations)
    /\ topoResult.status = "Ok"
    /\ execResult.status = "Ok"
    /\ topoResult.order # execResult.order

\* C4: on a model whose operation graph contains a cycle, neither ordering
\* returns Ok (each returns Err(InvalidModel) with no ordering).
C4_CycleRejected ==
    /\ (topoResult.status # "none" /\ HasCycle(model.operations)) =>
          topoResult = [status |-> "Err", error |-> "InvalidModel",
                        order |-> <<>>]
    /\ (execResult.status # "none" /\ HasCycle(model.operations)) =>
          execResult = [status |-> "Err", error |-> "InvalidModel",
                        order |-> <<>>]

\* C5: in execution_order, of two operations that entered the frontier in the
\* same round, one consuming a declared model input and one not, the second
\* is never emitted unless the first was emitted before it.
C5_ExecPriority ==
    alg = "exec" =>
        \A a, b \in DOMAIN model.operations :
            ( /\ readyRound[a] >= 0
              /\ readyRound[a] = readyRound[b]
              /\ consumes_input(model, a)
              /\ ~consumes_input(model, b)
              /\ b \in Range(ordered) )
            => /\ a \in Range(ordered)
               /\ Pos(ordered, a) < Pos(ordered, b)

\* execution_order has emitted everything, and both the initial frontier and
\* a later round held an input consumer with a larger index than a
\* parameter-only operation of the same round
C5_Witness ==
    /\ alg = "exec"
    /\ queue = <<>>
    /\ Len(ordered) = Len(model.operations)
    /\ \E a, b \in DOMAIN model.operations :
          /\ a > b
          /\ readyRound[a] >= 1
          /\ readyRound[a] = readyRound[b]
          /\ consumes_input(model, a)
          /\ ~consumes_input(model, b)
          /\ Pos(ordered, a) < Pos(ordered, b)

----------------------------------------------------------------------------
(* Notions the ingestion properties are stated with *)

\* the four sections that declare tensors, in pass order
SectionNames(graph, P) ==
    CASE P = 1 -> [k \in DOMAIN graph.initializer |-> graph.initializer[k].name]
      [] P = 2 -> [k \in DOMAIN graph.value_info |-> graph.value_info[k].name]
      [] P = 3 -> [k \in DOMAIN graph.input |-> graph.input[k].name]
      [] P = 4 -> [k \in DOMAIN graph.output |-> graph.output[k].name]

TypeSection(graph, P) ==
    CASE P = 2 -> graph.value_info
      [] P = 3 -> graph.input
      [] P = 4 -> graph.output

\* the largest member of a non-empty set of numbers
Max(S) == CHOOSE x \in S : \A y \in S : y <= x

\* the sections in which the name appears
Declaring(graph, name) ==
    { P \in 1..4 : name \in Range(SectionNames(graph, P)) }

\* the entries of section P from which a tensor record for the name is
\* built: every initializer of that name, and the type declarations of that
\* name whose type is a tensor type
BuildingEntries(graph, P, name) ==
    IF P = 1
    THEN { k \in DOMAIN graph.initializer : graph.initializer[k].name = name }
    ELSE { k \in DOMAIN TypeSection(graph, P) :
             /\ TypeSection(graph, P)[k].name = name
             /\ TypeSection(graph, P)[k].type.kind = "tensor" }

\* the sections that build a record for the name
Building(graph, name) ==
    { P \in 1..4 : BuildingEntries(graph, P, name) # {} }

\* the record section P builds for the name: from its last building entry
RecordOf(graph, P, name) ==
    LET k == Max(BuildingEntries(graph, P, name)) IN
    IF P = 1
    THEN from_tensor_proto(graph.initializer[k]).value
    ELSE from_tensor_type(name, TypeSection(graph, P)[k].type).value

\* the record holds a tensor message with a non-empty payload, so that its
\* data can be read
DataBearing(t) == t.proto.present /\ t.proto.raw_data # <<>>

\* the conversion errors of a graph: of its initializers and of the
\* attributes of its nodes
ConversionErrors(graph) ==
    { <<from_tensor_proto(graph.initializer[k]).kind,
        from_tensor_proto(graph.initializer[k]).tag>> :
        k \in { j \in DOMAIN graph.initializer :
                  from_tensor_proto(graph.initializer[j]).status = "Err" } }
    \cup UNION { { <<parse_attribute_proto(graph.node[n].attribute[a]).kind,
                     parse_attribute_proto(graph.node[n].attribute[a]).tag>> :
                     a \in { j \in DOMAIN graph.node[n].attribute :
                               parse_attribute_proto(
                                   graph.node[n].attribute[j]).status = "Err" } } :
                 n \in DOMAIN graph.node }

\* the names of the initializers and attributes that fail to convert
FailingNames(graph) ==
    { graph.initializer[k].name :
        k \in { j \in DOMAIN graph.initializer :
                  from_tensor_proto(graph.initializer[j]).status = "Err" } }
    \cup UNION { { graph.node[n].attribute[a].name :
                     a \in { j \in DOMAIN graph.node[n].attribute :
                               parse_attribute_proto(
                                   graph.node[n].attribute[j]).status = "Err" } } :
                 n \in DOMAIN graph.node }

----------------------------------------------------------------------------
(* Ingestion properties *)

\* C6: after load, every non-empty name whose (last) initializer carried data
\* still has a data-bearing record in `tensors`, also when value_info, graph
\* inputs or graph outputs declare the name again.
C6_InitializerDataKept ==
    loadResult.status = "Ok" =>
        \A name \in Range(SectionNames(msg.graph, 1)) \ { "" } :
            DataBearing(RecordOf(msg.graph, 1, name))
                => /\ name \in DOMAIN model.tensors
                   /\ DataBearing(model.tensors[name])

\* C7 as stated: after load, for a name that appears in more than one of the
\* four sections, tensors[name] is the record built by the last section, in
\* pass order, in which the name appears.
C7_LastDeclaringPassWins ==
    loadResult.status = "Ok" =>
        \A name \in LoadNames \ { "" } :
            Cardinality(Declaring(msg.graph, name)) > 1 =>
                LET P == Max(Declaring(msg.graph, name)) IN
                /\ P \in Building(msg.graph, name)
                /\ name \in DOMAIN model.tensors
                /\ model.tensors[name] = RecordOf(msg.graph, P, name)

\* C7 as amended: after load, for a name that appears in more than one of the
\* four sections, tensors[name] is the record built by the last section, in
\* pass order, that builds one for it (an initializer, or a type declaration
\* whose type is a tensor type); the name is absent when no section does.
C7_LastBuildingPassWins ==
    loadResult.status = "Ok" =>
        \A name \in LoadNames \ { "" } :
            Cardinality(Declaring(msg.graph, name)) > 1 =>
                IF Building(msg.graph, name) = {}
                THEN name \notin DOMAIN model.tensors
                ELSE /\ name \in DOMAIN model.tensors
                     /\ model.tensors[name] =
                          RecordOf(msg.graph, Max(Building(msg.graph, name)),
                                   name)

\* a loaded model in which a name was an initializer, then a value_info of
\* another element type, then a graph output without a tensor type, and
\* holds the value_info's record
C7_Witness ==
    /\ loadResult.status = "Ok"
    /\ \E name \in LoadNames \ { "" } :
          /\ Declaring(msg.graph, name) = {1, 2, 4}
          /\ Building(msg.graph, name) = {1, 2}
          /\ RecordOf(msg.graph, 1, name) # RecordOf(msg.graph, 2, name)
          /\ model.tensors[name] = RecordOf(msg.graph, 2, name)

\* C8: after load, `inputs` is the graph-input names, in declaration order,
\* that are non-empty and are not the name of an initializer; no initializer
\* name is in `inputs`.
C8_InputsExcludeInitializers ==
    loadResult.status = "Ok" =>
        /\ model.inputs =
             SelectSeq(SectionNames(msg.graph, 3),
                       LAMBDA name :
                           /\ name # ""
                           /\ \A k \in DOMAIN msg.graph.initializer :
                                 msg.graph.initializer[k].name # name)
        /\ \A k \in DOMAIN msg.graph.initializer :
              msg.graph.initializer[k].name \notin Range(model.inputs)

\* a loaded model whose graph inputs named an initializer after a name that
\* is none: only the latter is in `inputs`
C8_Witness ==
    /\ loadResult.status = "Ok"
    /\ Len(msg.graph.input) = 2
    /\ msg.graph.input[1].name \notin Range(SectionNames(msg.graph, 1)) \cup { "" }
    /\ msg.graph.input[2].name \in Range(SectionNames(msg.graph, 1)) \ { "" }
    /\ model.inputs = << msg.graph.input[1].name >>

\* C9: when an initializer or a node attribute of the graph fails to convert,
\* load returns the error of one of them and no model, whatever the names of
\* the failing ones.
C9_NoPartialModel ==
    ( /\ loadResult.status # "none"
      /\ msg.hasGraph
      /\ ConversionErrors(msg.graph) # {} )
    => /\ loadResult.status = "Err"
       /\ <<loadResult.kind, loadResult.tag>> \in ConversionErrors(msg.graph)
       /\ model = NoModel

\* load has returned on a graph whose only failing conversion is an unnamed
\* attribute behind a good one
C9_Witness ==
    /\ loadResult.status = "Err"
    /\ msg.hasGraph
    /\ FailingNames(msg.graph) = { "" }
    /\ \A k \in DOMAIN msg.graph.initializer :
          from_tensor_proto(msg.graph.initializer[k]).status = "Ok"
    /\ \E n \in DOMAIN msg.graph.node : Len(msg.graph.node[n].attribute) = 2

\* C10: load on a message without a graph section returns Err(InvalidModel)
\* and constructs no model.
C10_NoGraphRejected ==
    (loadResult.status # "none" /\ ~msg.hasGraph)
    => /\ loadResult = [status |-> "Err", kind |-> "InvalidModel", tag |-> 0]
       /\ model = NoModel

\* load has returned on the message without a graph section
C10_Witness ==
    /\ loadResult.status # "none"
    /\ ~msg.hasGraph

----------------------------------------------------------------------------
(* Tensor data accessors *)

\* the largest number of data queries made on one model
MaxCalls == 2

\* size_of::<T>() of the element types copy_data_as is instantiated with:
\* a zero-sized type, u8, f32 / i32, f64 / i64
TypeSizes == { 0, 1, 4, 8 }

\* DataType::size_in_bytes, None as the empty sequence
size_in_bytes(dt) ==
    CASE dt.variant \in { "Float32", "Int32", "Uint32" } -> << 4 >>
      [] dt.variant \in { "Float64", "Int64", "Uint64" } -> << 8 >>
      [] dt.variant \in { "Float16", "BFloat16", "Int16", "Uint16" } -> << 2 >>
      [] dt.variant \in { "Int8", "Uint8", "Bool" } -> << 1 >>
      [] dt.variant = "Complex64" -> << 8 >>
      [] dt.variant = "Complex128" -> << 16 >>
      [] OTHER -> << >>

\* a variant of storage_backing in which Undefined shares the 4-byte bucket
storage_backing_undefined_i32(dt) ==
    IF dt.variant = "Unknown" THEN "I32"
    ELSE CASE dt.variant \in { "Float32", "Complex64" } -> "F32"
           [] dt.variant \in { "Float64", "Complex128" } -> "F64"
           [] dt.variant = "Int64" -> "I64"
           [] dt.variant \in { "Uint32", "Uint64" } -> "U64"
           [] dt.variant = "String" -> "Strings"
           [] OTHER -> "I32"

\* storage_backing, on the data types of ONNX codes 0..16.  tensor.rs names
\* the variants Float, Double and Undefined that types.rs names Float32,
\* Float64 and Unknown(0).
storage_backing(dt) ==
    CASE dt.variant \in { "Float32", "Complex64" } -> "F32"
      [] dt.variant \in { "Float64", "Complex128" } -> "F64"
      [] dt.variant = "Int64" -> "I64"
      [] dt.variant \in { "Uint32", "Uint64" } -> "U64"
      [] dt.variant \in { "Int32", "Int16", "Int8", "Uint16", "Uint8", "Bool",
                          "Float16", "BFloat16" } -> "I32"
      [] dt.variant = "String" -> "Strings"
      [] OTHER -> "None"

\* the TensorProto an initializer's OnnxTensor holds (proto: Some): raw
\* bytes, the five typed arrays and the string elements.  A byte is a number
\* in 0..255; an element of a typed array is the sequence of bytes it
\* occupies in memory (4 for f32 and i32, 8 for f64, i64 and u64).
StoredProto(raw, floats, doubles, int64s, uint64s, int32s, strings) ==
    [present |-> TRUE, raw_data |-> raw, float_data |-> floats,
     double_data |-> doubles, int64_data |-> int64s, uint64_data |-> uint64s,
     int32_data |-> int32s, string_data |-> strings]

\* slice_bytes_as and into_vec_u8: the memory of the elements, in order
slice_bytes_as(slice) == Flatten(slice)

into_vec_u8(v) == Flatten(v)

\* the TensorData variants; `cow` tells a borrowed Numeric view from an
\* owned one
Raw(b) == [variant |-> "Raw", bytes |-> b, parts |-> <<>>, cow |-> ""]

Numeric(b, cow) == [variant |-> "Numeric", bytes |-> b, parts |-> <<>>, cow |-> cow]

Strings(parts) == [variant |-> "Strings", bytes |-> <<>>, parts |-> parts, cow |-> ""]

NoData == [variant |-> "none", bytes |-> <<>>, parts |-> <<>>, cow |-> ""]

\* the typed-array branch of data and into_data: the array of the data
\* type's storage bucket
TypedData(self, bucket, cow) ==
    LET t == self.proto IN
    CASE bucket = "F32" -> Ok(Numeric(slice_bytes_as(t.float_data), cow))
      [] bucket = "F64" -> Ok(Numeric(slice_bytes_as(t.double_data), cow))
      [] bucket = "I64" -> Ok(Numeric(slice_bytes_as(t.int64_data), cow))
      [] bucket = "U64" -> Ok(Numeric(slice_bytes_as(t.uint64_data), cow))
      [] bucket = "I32" -> Ok(Numeric(slice_bytes_as(t.int32_data), cow))
      [] bucket = "Strings" ->
            IF t.string_data = <<>> /\ \E k \in DOMAIN self.shape : self.shape[k] # 0
            THEN Err("MissingField", 0, NoData)
            ELSE Ok(Strings(t.string_data))
      [] OTHER -> Err("MissingField", 0, NoData)

\* a variant of data that consults the typed arrays before the raw bytes
data_typed_first(self) ==
    IF ~self.proto.present
    THEN Err("MissingField", 0, NoData)
    ELSE LET typed == TypedData(self, storage_backing(self.data_type), "Borrowed") IN
         IF typed.status = "Ok" /\ (typed.value.bytes # <<>> \/ typed.value.parts # <<>>)
         THEN typed
         ELSE IF self.proto.raw_data # <<>>
         THEN Ok(Raw(self.proto.raw_data))
         ELSE typed

\* a variant of data that reads a tensor without a message as an empty one
data_absent_as_empty(self) ==
    IF ~self.proto.present
    THEN Ok(Raw(<<>>))
    ELSE IF self.proto.raw_data # <<>>
    THEN Ok(Raw(self.proto.raw_data))
    ELSE TypedData(self, storage_backing(self.data_type), "Borrowed")

\* OnnxTensor::data
data(self) ==
    IF ~self.proto.present
    THEN Err("MissingField", 0, NoData)
    ELSE IF self.proto.raw_data # <<>>
    THEN Ok(Raw(self.proto.raw_data))
    ELSE TypedData(self, storage_backing(self.data_type), "Borrowed")

\* TensorData::into_owned: a borrowed Numeric view is copied into an owned
\* one; Raw and Strings are returned as they are
into_owned(d) == IF d.variant = "Numeric" THEN Numeric(d.bytes, "Owned") ELSE d

\* a variant of into_data that hands out the string elements unchecked
into_data_strings_unchecked(self) ==
    IF ~self.proto.present
    THEN Err("MissingField", 0, NoData)
    ELSE IF self.proto.raw_data # <<>>
    THEN Ok(Raw(self.proto.raw_data))
    ELSE IF storage_backing(self.data_type) = "Strings"
    THEN Ok(Strings(self.proto.string_data))
    ELSE TypedData(self, storage_backing(self.data_type), "Owned")

\* OnnxTensor::into_data
into_data(self) ==
    IF ~self.proto.present
    THEN Err("MissingField", 0, NoData)
    ELSE IF self.proto.raw_data # <<>>
    THEN Ok(Raw(self.proto.raw_data))
    ELSE TypedData(self, storage_backing(self.data_type), "Owned")

\* the elements copy_data_as copies out of the byte view: consecutive
\* chunks of type_size bytes
Chunks(bytes, type_size, count) ==
    [k \in 1..count |-> SubSeq(bytes, (k - 1) * type_size + 1, k * type_size)]

\* a variant of copy_data_as that drops the bytes beyond the last whole
\* element
copy_data_as_truncating(self, type_size) ==
    LET data_ref == data(self) IN
    IF data_ref.status = "Err" THEN Err(data_ref.kind, data_ref.tag, <<>>)
    ELSE IF type_size = 0 THEN Err("DataConversion", 0, <<>>)
    ELSE LET bytes == IF data_ref.value.variant = "Strings"
                      THEN Flatten(data_ref.value.parts)
                      ELSE data_ref.value.bytes
         IN Ok(Chunks(bytes, type_size, Len(bytes) \div type_size))

\* OnnxTensor::copy_data_as::<T> with size_of::<T>() = type_size; the error
\* of a misaligned view carries the byte length
copy_data_as(self, type_size) ==
    LET data_ref == data(self) IN
    IF data_ref.status = "Err" THEN Err(data_ref.kind, data_ref.tag, <<>>)
    ELSE IF type_size = 0 THEN Err("DataConversion", 0, <<>>)
    ELSE LET bytes == IF data_ref.value.variant = "Strings"
                      THEN Flatten(data_ref.value.parts)
                      ELSE data_ref.value.bytes
         IN IF bytes = <<>> THEN Ok(<<>>)
            ELSE IF Len(bytes) % type_size # 0
            THEN Err("DataConversion", Len(bytes), <<>>)
            ELSE Ok(Chunks(bytes, type_size, Len(bytes) \div type_size))

----------------------------------------------------------------------------
(* The data specification: queries on the tensors of a model *)

\* the tensor messages drawn: no payload, raw bytes of 3, 4 and 8 bytes, raw
\* bytes next to every typed array, each typed array alone, string elements
\* (one of them empty), and every typed array without raw bytes
StoredProtos ==
    LET f == << <<0, 0, 128, 63>> >>
        d == << <<0, 0, 0, 0, 0, 0, 240, 63>> >>
        i64 == << <<7, 0, 0, 0, 0, 0, 0, 0>> >>
        u64 == << <<9, 0, 0, 0, 0, 0, 0, 0>> >>
        i32 == << <<5, 0, 0, 0>> >>
        str == << <<104, 105>>, <<33>> >>
    IN { StoredProto(<<>>, <<>>, <<>>, <<>>, <<>>, <<>>, <<>>),
         StoredProto(<<1, 2, 3>>, <<>>, <<>>, <<>>, <<>>, <<>>, <<>>),
         StoredProto(<<1, 2, 3, 4>>, <<>>, <<>>, <<>>, <<>>, <<>>, <<>>),
         StoredProto(<<1, 2, 3, 4, 5, 6, 7, 8>>, <<>>, <<>>, <<>>, <<>>, <<>>, <<>>),
         StoredProto(<<1, 2, 3, 4>>, f, d, i64, u64, i32, str),
         StoredProto(<<>>, f \o f, <<>>, <<>>, <<>>, <<>>, <<>>),
         StoredProto(<<>>, <<>>, d, <<>>, <<>>, <<>>, <<>>),
         StoredProto(<<>>, <<>>, <<>>, i64, <<>>, <<>>, <<>>),
         StoredProto(<<>>, <<>>, <<>>, <<>>, u64, <<>>, <<>>),
         StoredProto(<<>>, <<>>, <<>>, <<>>, <<>>, i32, <<>>),
         StoredProto(<<>>, <<>>, <<>>, <<>>, <<>>, <<>>, str),
         StoredProto(<<>>, <<>>, <<>>, <<>>, <<>>, <<>>, << <<>> >>),
         StoredProto(<<>>, f, d, i64, u64, i32, str) }

\* the ONNX codes of the data types drawn: UNDEFINED, FLOAT, UINT8, INT32,
\* INT64, STRING, DOUBLE, UINT32
DataTypeCodes == { 0, 1, 2, 6, 7, 8, 11, 12 }

\* the shapes drawn: a scalar, an empty tensor and two elements
DataShapes == { <<>>, <<0>>, <<2>> }

\* the tensor of an initializer: a shape, a data type and the message
DataTensors ==
    { OnnxTensor("W", shape, from_onnx_type(c), proto) :
        shape \in DataShapes, c \in DataTypeCodes, proto \in StoredProtos }

\* the tensor of a type declaration: FLOAT with a literal and a dynamic
\* dimension
DeclaredTensor ==
    from_tensor_type("X", [kind |-> "tensor", has_elem_type |-> TRUE,
                           elem_type |-> 1, has_shape |-> TRUE,
                           dim |-> << [has_value |-> TRUE, value |-> 2],
                                      [has_value |-> FALSE, value |-> 0] >>]).value

\* a loaded model holding an initializer "W" and a declared tensor "X"
DataModel(w) ==
    [tensors |-> [n \in { "W", "X" } |-> IF n = "W" THEN w ELSE DeclaredTensor],
     operations |-> <<>>, inputs |-> <<>>, outputs |-> << "X" >>]

\* the record of a query: the accessor, its receiver, the element size of
\* copy_data_as and the returned Result
Query(op, self, type_size, result) ==
    [op |-> op, self |-> self, type_size |-> type_size, result |-> result]

\* tensor.data() on a tensor of the model
Data ==
    /\ calls < MaxCalls
    /\ \E name \in DOMAIN model.tensors :
          dataResult' = Query("data", model.tensors[name], 0,
                              data(model.tensors[name]))
    /\ calls' = calls + 1
    /\ UNCHANGED <<msg, loadResult, model, orderVars, arg, ret, extVars>>

\* tensor.copy_data_as::<T>() on a tensor of the model
CopyDataAs ==
    /\ calls < MaxCalls
    /\ \E name \in DOMAIN model.tensors : \E type_size \in TypeSizes :
          dataResult' = Query("copy_data_as", model.tensors[name], type_size,
                              copy_data_as(model.tensors[name], type_size))
    /\ calls' = calls + 1
    /\ UNCHANGED <<msg, loadResult, model, orderVars, arg, ret, extVars>>

\* tensor.into_data() consumes its receiver: the client takes the tensor out
\* of the public `tensors` map first
IntoData ==
    /\ calls < MaxCalls
    /\ \E name \in DOMAIN model.tensors :
          /\ dataResult' = Query("into_data", model.tensors[name], 0,
                                 into_data(model.tensors[name]))
          /\ model' = [model EXCEPT !.tensors =
                          [n \in (DOMAIN model.tensors) \ { name } |->
                              model.tensors[n]]]
    /\ calls' = calls + 1
    /\ UNCHANGED <<msg, loadResult, orderVars, arg, ret, extVars>>

InitData ==
    /\ msg = NoMsg
    /\ loadResult = [status |-> "Ok", kind |-> "", tag |-> 0]
    /\ \E w \in DataTensors : model = DataModel(w)
    /\ alg = "idle"
    /\ indegree = <<>>
    /\ queue = <<>>
    /\ ordered = <<>>
    /\ readyRound = <<>>
    /\ topoResult = NoResult
    /\ execResult = NoResult
    /\ QueriesIdle
    /\ LoaderIdle

NextData ==
    \/ Data
    \/ CopyDataAs
    \/ IntoData

SpecData == InitData /\ [][NextData]_vars

----------------------------------------------------------------------------
(* Data properties *)

\* the byte view a query's receiver resolves to: the bytes of its data,
\* string elements concatenated
ViewBytes(q) ==
    LET v == data(q.self).value IN
    IF v.variant = "Strings" THEN Flatten(v.parts) ELSE v.bytes

ViewLength(q) == Len(ViewBytes(q))

\* C11: copy_data_as::<T> on a tensor whose byte view has N bytes, with T of
\* width W > 0, succeeds iff N mod W = 0 and then yields exactly N / W
\* elements (the consecutive W-byte chunks of the view); otherwise it fails
\* with a data-conversion error.
C11_ByteAlignmentLaw ==
    ( /\ dataResult # <<>>
      /\ dataResult.op = "copy_data_as"
      /\ dataResult.type_size > 0
      /\ data(dataResult.self).status = "Ok" )
    => LET N == ViewLength(dataResult)
           W == dataResult.type_size
           r == dataResult.result
       IN /\ r.status = "Ok" <=> N % W = 0
          /\ r.status = "Ok" =>
                /\ Len(r.value) = N \div W
                /\ \A k \in DOMAIN r.value : Len(r.value[k]) = W
                /\ Flatten(r.value) = ViewBytes(dataResult)
          /\ r.status = "Err" => r.kind = "DataConversion"

\* copy_data_as::<f32> has returned 2 elements for a view of 8 bytes
C11_Witness ==
    /\ dataResult # <<>>
    /\ dataResult.op = "copy_data_as"
    /\ dataResult.type_size = 4
    /\ data(dataResult.self).status = "Ok"
    /\ ViewLength(dataResult) = 8
    /\ dataResult.result.status = "Ok"
    /\ Len(dataResult.result.value) = 2

\* the number of elements a shape of positive dimensions implies
RECURSIVE ElementCount(_)
ElementCount(shape) ==
    IF shape = <<>> THEN 1 ELSE Head(shape) * ElementCount(Tail(shape))

\* C12: for a tensor whose shape (all dimensions positive) implies N elements
\* and whose data type has the byte width w, copy_data_as at that width
\* fails when the byte view is not N x w bytes long, and never succeeds with
\* an element count other than N.
C12_ShapeCountChecked ==
    ( /\ dataResult # <<>>
      /\ dataResult.op = "copy_data_as"
      /\ \A k \in DOMAIN dataResult.self.shape : dataResult.self.shape[k] > 0
      /\ size_in_bytes(dataResult.self.data_type) = << dataResult.type_size >>
      /\ data(dataResult.self).status = "Ok" )
    => LET N == ElementCount(dataResult.self.shape)
           r == dataResult.result
       IN /\ ViewLength(dataResult) # N * dataResult.type_size
                => r.status = "Err"
          /\ r.status = "Ok" => Len(r.value) = N

\* C13: every data() or copy_data_as() call on a tensor built from a type
\* declaration (no tensor message) returns a missing-field error and leaves
\* the model (tensors, operations, inputs, outputs) as it was, so that later
\* queries see the same model.
C13_NoDataQueryKeepsModel ==
    [][ ( /\ calls' = calls + 1
          /\ dataResult'.op \in { "data", "copy_data_as" }
          /\ ~dataResult'.self.proto.present )
        => /\ dataResult'.result.status = "Err"
           /\ dataResult'.result.kind = "MissingField"
           /\ model' = model ]_vars

\* the second query on a model was data() on its declared tensor: it failed
\* and the model still holds both tensors
C13_Witness ==
    /\ calls = 2
    /\ dataResult.op = "data"
    /\ dataResult.self = DeclaredTensor
    /\ dataResult.result.status = "Err"
    /\ DOMAIN model.tensors = { "W", "X" }
    /\ data(model.tensors["W"]).status = "Ok"

\* C14: whenever a tensor's raw bytes are non-empty, data() and into_data()
\* return the Raw variant holding exactly those bytes, whatever the data type
\* and the typed arrays; the typed arrays are consulted only when the raw
\* bytes are absent or empty.
C14_RawPrecedence ==
    ( /\ dataResult # <<>>
      /\ dataResult.op \in { "data", "into_data" }
      /\ dataResult.self.proto.present )
    => LET raw == dataResult.self.proto.raw_data
           r == dataResult.result
       IN /\ raw # <<>> => r = Ok(Raw(raw))
          /\ (raw = <<>> /\ r.status = "Ok")
                => r.value.variant \in { "Numeric", "Strings" }

\* into_data() has returned the raw bytes of a STRING tensor whose message
\* also carries typed arrays and string elements
C14_Witness ==
    /\ dataResult # <<>>
    /\ dataResult.op = "into_data"
    /\ dataResult.self.data_type.variant = "String"
    /\ dataResult.self.proto.raw_data # <<>>
    /\ dataResult.self.proto.float_data # <<>>
    /\ dataResult.self.proto.string_data # <<>>
    /\ dataResult.result.value.variant = "Raw"

\* C15 as stated: data() and into_data() of a tensor whose data type is
\* Undefined fail, whatever payload the tensor message carries.
C15_UndefinedAlwaysFails ==
    ( /\ dataResult # <<>>
      /\ dataResult.op \in { "data", "into_data" }
      /\ dataResult.self.data_type.variant = "Unknown" )
    => dataResult.result.status = "Err"

\* C15 as amended: data() and into_data() of a tensor whose data type is
\* Undefined fail with a missing-field error when the message's raw bytes are
\* absent or empty, whatever typed arrays it carries; non-empty raw bytes are
\* returned as Raw.
C15_UndefinedFailsWithoutRaw ==
    ( /\ dataResult # <<>>
      /\ dataResult.op \in { "data", "into_data" }
      /\ dataResult.self.data_type.variant = "Unknown" )
    => LET t == dataResult.self.proto
           r == dataResult.result
       IN IF ~t.present \/ t.raw_data = <<>>
          THEN r.status = "Err" /\ r.kind = "MissingField"
          ELSE r = Ok(Raw(t.raw_data))

\* data() has failed on an Undefined tensor whose message carries every typed
\* array but no raw bytes
C15_Witness ==
    /\ dataResult # <<>>
    /\ dataResult.op = "data"
    /\ dataResult.self.data_type.variant = "Unknown"
    /\ dataResult.self.proto.raw_data = <<>>
    /\ dataResult.self.proto.int32_data # <<>>
    /\ dataResult.self.proto.float_data # <<>>
    /\ dataResult.result.status = "Err"

----------------------------------------------------------------------------
(* The attribute specification: the node adapter on every bounded node *)

\* the largest number of attributes of a node handed to the adapter
MaxAttrs == 2

\* the type tags drawn: the seven the adapter knows, the other tags of the
\* schema (0 UNDEFINED, 5 GRAPH, 9 .. 14), and -1
AttrTypeTags == { -1, 0, 1, 2, 3, 4, 5, 6, 7, 8, 9, 10, 11, 12, 13, 14 }

\* the attributes drawn: every tag, and the absent tag, under an empty and
\* two non-empty names, with payloads the adapter accepts
TaggedAttributes ==
    { Attribute(n, t, <<104>>, TRUE, << <<104>> >>) :
        n \in { "", "a", "b" }, t \in AttrTypeTags }
    \cup { [Attribute(n, 0, <<104>>, TRUE, << <<104>> >>) EXCEPT !.has_type = FALSE] :
             n \in { "", "a", "b" } }

\* OnnxOperation::from_node_proto on the node handed over
FromNodeProto ==
    /\ ret = <<>>
    /\ ret' = operation_from_node_proto(arg)
    /\ UNCHANGED <<msg, loadResult, model, orderVars, arg, dataResult, calls,
                   extVars>>

InitAttr ==
    /\ msg = NoMsg
    /\ loadResult = NoLoad
    /\ model = NoModel
    /\ alg = "idle"
    /\ indegree = <<>>
    /\ queue = <<>>
    /\ ordered = <<>>
    /\ readyRound = <<>>
    /\ topoResult = NoResult
    /\ execResult = NoResult
    /\ \E n \in 1..MaxAttrs : \E attrs \in [1..n -> TaggedAttributes] :
          arg = Node(attrs)
    /\ ret = <<>>
    /\ dataResult = <<>>
    /\ calls = 0
    /\ LoaderIdle

NextAttr == FromNodeProto

SpecAttr == InitAttr /\ [][NextAttr]_vars

----------------------------------------------------------------------------
(* Attribute properties *)

\* the type tag of an attribute message as read, an absent tag as 0
TagOf(attr) == IF attr.has_type THEN attr.type ELSE 0

KnownTags == { 1, 2, 3, 4, 6, 7, 8 }

\* the positions of the attributes of a node whose tag is not known
UnknownTagged(node) ==
    { k \in DOMAIN node.attribute : TagOf(node.attribute[k]) \notin KnownTags }

\* C16: parsing an attribute whose type tag (an absent tag read as 0) is
\* outside {1, 2, 3, 4, 6, 7, 8} fails with an Unsupported error naming the
\* tag, and a node holding such an attribute yields that error of its first
\* such attribute and no operation: the attribute is never dropped.
C16_UnknownTagRejected ==
    ( /\ ret # <<>>
      /\ UnknownTagged(arg) # {} )
    => /\ \A k \in UnknownTagged(arg) :
             LET r == parse_attribute_proto(arg.attribute[k]) IN
             /\ r.status = "Err"
             /\ r.kind = "Unsupported"
             /\ r.tag = TagOf(arg.attribute[k])
       /\ LET first == CHOOSE k \in UnknownTagged(arg) :
                           \A j \in UnknownTagged(arg) : k <= j
          IN /\ ret.status = "Err"
             /\ ret.kind = "Unsupported"
             /\ ret.tag = TagOf(arg.attribute[first])

\* the adapter has rejected a node whose second attribute, unnamed, has no
\* type tag, behind a good named attribute
C16_Witness ==
    /\ ret # <<>>
    /\ Len(arg.attribute) = 2
    /\ TagOf(arg.attribute[1]) \in KnownTags
    /\ arg.attribute[1].name # ""
    /\ ~arg.attribute[2].has_type
    /\ arg.attribute[2].name = ""
    /\ ret.status = "Err"
    /\ ret.kind = "Unsupported"
    /\ ret.tag = 0

----------------------------------------------------------------------------
(* The type-declaration specification: from_tensor_type on every bounded
   tensor type *)

\* the largest number of dimensions of a shape handed to the adapter
MaxDims == 2

\* the dimensions drawn: literal values 3, 0 and -1, and a dimension without
\* a literal value (a symbolic name or nothing)
Dimensions ==
    { [has_value |-> TRUE, value |-> v] : v \in { 3, 0, -1 } }
    \cup { [has_value |-> FALSE, value |-> 0] }

\* the element types drawn: FLOAT, INT64, UNDEFINED and a code beyond the
\* enumeration
ElemTypes == { 0, 1, 7, 99 }

\* a type_proto::Tensor: the optional element type and the optional shape
TensorType(has_elem_type, elem_type, has_shape, dim) ==
    [kind |-> "tensor", has_elem_type |-> has_elem_type,
     elem_type |-> elem_type, has_shape |-> has_shape, dim |-> dim]

\* OnnxTensor::from_tensor_type on the tensor type handed over
FromTensorType ==
    /\ ret = <<>>
    /\ ret' = from_tensor_type("X", arg)
    /\ UNCHANGED <<msg, loadResult, model, orderVars, arg, dataResult, calls,
                   extVars>>

InitType ==
    /\ msg = NoMsg
    /\ loadResult = NoLoad
    /\ model = NoModel
    /\ alg = "idle"
    /\ indegree = <<>>
    /\ queue = <<>>
    /\ ordered = <<>>
    /\ readyRound = <<>>
    /\ topoResult = NoResult
    /\ execResult = NoResult
    /\ \E has_elem_type \in BOOLEAN :
         \E elem_type \in IF has_elem_type THEN ElemTypes ELSE { 0 } :
            \/ arg = TensorType(has_elem_type, elem_type, FALSE, <<>>)
            \/ \E n \in 0..MaxDims : \E dim \in [1..n -> Dimensions] :
                  arg = TensorType(has_elem_type, elem_type, TRUE, dim)
    /\ ret = <<>>
    /\ dataResult = <<>>
    /\ calls = 0
    /\ LoaderIdle

NextType == FromTensorType

SpecType == InitType /\ [][NextType]_vars

----------------------------------------------------------------------------
(* Type-declaration properties *)

\* C17: the shape of every tensor built from a type declaration has the
\* length of the source dimension list, entry k being the k-th dimension's
\* literal value, or -1 when it has none; a missing shape gives the empty
\* sequence.
C17_RoundTripShape ==
    (ret # <<>> /\ ret.status = "Ok")
    => IF arg.has_shape
       THEN /\ Len(ret.value.shape) = Len(arg.dim)
            /\ \A k \in DOMAIN arg.dim :
                  ret.value.shape[k] = IF arg.dim[k].has_value
                                       THEN arg.dim[k].value ELSE -1
       ELSE ret.value.shape = <<>>

\* a tensor was built from a shape whose first dimension has no literal value
\* and whose second is the literal 3
C17_Witness ==
    /\ ret # <<>>
    /\ ret.status = "Ok"
    /\ arg.has_shape
    /\ Len(arg.dim) = 2
    /\ ~arg.dim[1].has_value
    /\ arg.dim[2] = [has_value |-> TRUE, value |-> 3]
    /\ ret.value.shape = << -1, 3 >>

\* C18 as stated: a type declaration with a missing elem_type is reported as
\* an invalid-model error, and so is an elem_type of UNDEFINED (0).
C18_ElemTypeInvalidModel ==
    (ret # <<>> /\ (~arg.has_elem_type \/ arg.elem_type = 0))
    => ret.status = "Err" /\ ret.kind = "InvalidModel"

\* C18 as amended: a type declaration with a missing elem_type is reported
\* as a missing-field error; an elem_type of UNDEFINED (0) is reported as an
\* invalid-model error.
C18_ElemTypeErrors ==
    ret # <<>>
    => /\ ~arg.has_elem_type
            => ret.status = "Err" /\ ret.kind = "MissingField"
       /\ (arg.has_elem_type /\ arg.elem_type = 0)
            => ret.status = "Err" /\ ret.kind = "InvalidModel"

\* the adapter has rejected a type declaration without an element type
C18_Witness ==
    /\ ret # <<>>
    /\ ~arg.has_elem_type
    /\ arg.has_shape
    /\ ret.status = "Err"
    /\ ret.kind = "MissingField"

----------------------------------------------------------------------------
(* External-data loader *)

\* The widths of the source's integers are scaled down: u64 is modelled with
\* U64Bits bits, and usize with U64Bits bits on a target whose pointers are
\* as wide as u64 (the 64-bit targets) and with one bit less on a target
\* whose pointers are narrower (the 32-bit targets).
U64Bits == 3

\* the largest number of times the model lets one file be read
MaxReads == 2

\* usize::MAX on the target
UsizeMax(bits) == 2 ^ bits - 1

\* `v as usize`: the low bits of v
as_usize(v, bits) == v % (2 ^ bits)

\* usize::saturating_add
saturating_add(a, b, bits) ==
    IF a + b > UsizeMax(bits) THEN UsizeMax(bits) ELSE a + b

\* Option values: None is the empty sequence, Some(v) the sequence of v
None == << >>

Some(v) == << v >>

unwrap_or(opt, default) == IF opt = None THEN default ELSE opt[1]

\* an ExternalDataInfo (the loader it points to is the one loader modelled)
ExternalDataInfo(location, offset, length) ==
    [location |-> location, offset |-> offset, length |-> length]

\* ExternalDataLoader::slice_data on a target with usize of `bits` bits
slice_data(buf, info, bits) ==
    LET start == as_usize(unwrap_or(info.offset, 0), bits)
        end == IF info.length # None
               THEN saturating_add(start, as_usize(info.length[1], bits), bits)
               ELSE Len(buf)
    IN IF start > Len(buf)
       THEN Err("InvalidModel", start, <<>>)
       ELSE IF end > Len(buf)
       THEN Err("InvalidModel", end, <<>>)
       ELSE Ok(SubSeq(buf, start + 1, end))

\* the RefCell around the cache: the number of live shared borrows and
\* whether the mutable borrow is live
NoBorrow == [shared |-> 0, mutable |-> FALSE]

\* no load_data call is in progress
NoFrame == [pc |-> "idle", info |-> <<>>, file_data |-> <<>>, slice |-> <<>>]

\* ExternalDataLoader::load_file: the bytes of the file, or an I/O error when
\* it cannot be opened
load_file(dir, location) ==
    IF dir[location].exists THEN Ok(dir[location].data) ELSE Err("Io", 0, <<>>)

\* a variant of load_data whose cache holds only the file read last
load_data_single_entry(dir, c, rd, info, bits) ==
    IF info.location \in DOMAIN c
    THEN [result |-> slice_data(c[info.location], info, bits),
          hit |-> TRUE, cache |-> c, reads |-> rd]
    ELSE LET file_data == load_file(dir, info.location) IN
         IF file_data.status = "Err"
         THEN [result |-> file_data, hit |-> FALSE, cache |-> c, reads |-> rd]
         ELSE LET slice == slice_data(file_data.value, info, bits)
                  read == [rd EXCEPT ![info.location] = @ + 1]
              IN IF slice.status = "Err"
                 THEN [result |-> slice, hit |-> FALSE, cache |-> c,
                       reads |-> read]
                 ELSE [result |-> slice, hit |-> FALSE,
                       cache |-> Insert(<<>>, info.location, file_data.value),
                       reads |-> read]

\* a variant of load_data that caches the file as soon as it is read
load_data_cache_first(dir, c, rd, info, bits) ==
    IF info.location \in DOMAIN c
    THEN [result |-> slice_data(c[info.location], info, bits),
          hit |-> TRUE, cache |-> c, reads |-> rd]
    ELSE LET file_data == load_file(dir, info.location) IN
         IF file_data.status = "Err"
         THEN [result |-> file_data, hit |-> FALSE, cache |-> c, reads |-> rd]
         ELSE [result |-> slice_data(file_data.value, info, bits),
               hit |-> FALSE,
               cache |-> Insert(c, info.location, file_data.value),
               reads |-> [rd EXCEPT ![info.location] = @ + 1]]

\* ExternalDataLoader::load_data: the result, whether the cache was hit, and
\* the cache and the read counts after the call
load_data(dir, c, rd, info, bits) ==
    IF info.location \in DOMAIN c
    THEN [result |-> slice_data(c[info.location], info, bits),
          hit |-> TRUE, cache |-> c, reads |-> rd]
    ELSE LET file_data == load_file(dir, info.location) IN
         IF file_data.status = "Err"
         THEN [result |-> file_data, hit |-> FALSE, cache |-> c, reads |-> rd]
         ELSE LET slice == slice_data(file_data.value, info, bits)
                  read == [rd EXCEPT ![info.location] = @ + 1]
              IN IF slice.status = "Err"
                 THEN [result |-> slice, hit |-> FALSE, cache |-> c,
                       reads |-> read]
                 ELSE [result |-> slice, hit |-> FALSE,
                       cache |-> Insert(c, info.location, file_data.value),
                       reads |-> read]

----------------------------------------------------------------------------
(* The loader specification: load_data requests on one loader *)

\* the locations requested
Locations == { "a.bin", "b.bin" }

\* what a location can hold: no file, an empty file, a file of three bytes
NoFile == [exists |-> FALSE, data |-> <<>>]

File(bytes) == [exists |-> TRUE, data |-> bytes]

\* the model directories: a.bin is a readable file, empty or of three bytes;
\* b.bin is missing or a file of three bytes
Directories ==
    { [l \in Locations |-> IF l = "a.bin" THEN a ELSE b] :
        a \in { File(<<>>), File(<<10, 11, 12>>) },
        b \in { NoFile, File(<<20, 21, 22>>) } }

\* the u64 values of an offset or a length
U64 == 0 .. (2 ^ U64Bits - 1)

\* the requests: a location, an optional offset and an optional length
Requests ==
    { ExternalDataInfo(l, o, n) :
        l \in Locations,
        o \in { None } \cup { Some(v) : v \in U64 },
        n \in { None } \cup { Some(v) : v \in U64 } }

\* loader.load_data(info)
LoadData ==
    /\ \E info \in Requests :
          /\ (info.location \notin DOMAIN cache /\ files[info.location].exists)
                => reads[info.location] < MaxReads
          /\ LET r == load_data(files, cache, reads, info, target) IN
             /\ extResult' = [info |-> info, result |-> r.result, hit |-> r.hit]
             /\ cache' = r.cache
             /\ reads' = r.reads
    /\ UNCHANGED <<msg, loadResult, model, orderVars, queryVars, target, files,
                   borrow, frame>>

\* a new loader (empty cache) over a directory, on a 64-bit or a 32-bit
\* target
InitExt ==
    /\ msg = NoMsg
    /\ loadResult = NoLoad
    /\ model = NoModel
    /\ alg = "idle"
    /\ indegree = <<>>
    /\ queue = <<>>
    /\ ordered = <<>>
    /\ readyRound = <<>>
    /\ topoResult = NoResult
    /\ execResult = NoResult
    /\ QueriesIdle
    /\ target \in { U64Bits, U64Bits - 1 }
    /\ files \in Directories
    /\ cache = <<>>
    /\ reads = [l \in Locations |-> 0]
    /\ extResult = <<>>
    /\ borrow = NoBorrow
    /\ frame = NoFrame

NextExt == LoadData

SpecExt == InitExt /\ [][NextExt]_vars

----------------------------------------------------------------------------
(* Properties of the loader *)

\* C19: across any sequence of load_data requests, whether they succeed or
\* fail, the file of each location is read from disk at most once.
C19_FileReadAtMostOnce == \A l \in DOMAIN reads : reads[l] <= 1

\* the bounds of a request as the u64 values of its offset and length give
\* them: the start is the offset or 0, the end is start + length saturating
\* at the largest u64, or the file size when the length is unset
RequestedStart(info) == unwrap_or(info.offset, 0)

RequestedEnd(info, size) ==
    IF info.length = None
    THEN size
    ELSE IF RequestedStart(info) + info.length[1] > 2 ^ U64Bits - 1
         THEN 2 ^ U64Bits - 1
         ELSE RequestedStart(info) + info.length[1]

\* C20: a request on a readable file fails with an invalid-model error
\* exactly when its start or its end exceeds the file size, for every u64
\* offset and length, and succeeds otherwise.
C20_BoundsValidated ==
    (extResult # <<>> /\ files[extResult.info.location].exists) =>
        LET info == extResult.info
            size == Len(files[info.location].data)
            out == RequestedStart(info) > size \/ RequestedEnd(info, size) > size
        IN IF out
           THEN extResult.result.status = "Err"
                /\ extResult.result.kind = "InvalidModel"
           ELSE extResult.result.status = "Ok"

\* C21: a successful load_data returns exactly the file bytes [start, end),
\* so its length is the requested length when one is set and file size -
\* start otherwise, on a cache miss and on a cache hit alike.
C21_ExactBytes ==
    (extResult # <<>> /\ extResult.result.status = "Ok") =>
        LET info == extResult.info
            bytes == files[info.location].data
            start == RequestedStart(info)
            end == RequestedEnd(info, Len(bytes))
        IN /\ start <= end
           /\ end <= Len(bytes)
           /\ extResult.result.value = SubSeq(bytes, start + 1, end)
           /\ Len(extResult.result.value) =
                 IF info.length # None THEN info.length[1]
                 ELSE Len(bytes) - start

\* C22: the cache only grows: across load_data calls a location once cached
\* stays cached, and its cached bytes are never replaced.
C22_CacheMonotone ==
    [][\A l \in DOMAIN cache : l \in DOMAIN cache' /\ cache'[l] = cache[l]]_vars

\* both files are cached, and the last request hit the cache
C22_Witness ==
    /\ DOMAIN cache = Locations
    /\ extResult # <<>>
    /\ extResult.hit

----------------------------------------------------------------------------
(* The borrow specification: load_data statement by statement, with the
   borrow state of the RefCell that guards the cache *)

\* RefCell::borrow: one more shared borrow; it panics while the mutable
\* borrow is live
CanBorrow(b) == ~b.mutable

borrow_shared(b) == [b EXCEPT !.shared = @ + 1]

\* RefCell::borrow_mut: the mutable borrow; it panics while any borrow is live
CanBorrowMut(b) == ~b.mutable /\ b.shared = 0

borrow_mut(b) == [b EXCEPT !.mutable = TRUE]

\* a variant of drop_ref in which the guard of the lookup outlives its block
drop_ref_kept(b) == b

\* the Ref guard goes out of scope: one shared borrow less
drop_ref(b) == [b EXCEPT !.shared = @ - 1]

\* the RefMut guard goes out of scope
drop_ref_mut(b) == [b EXCEPT !.mutable = FALSE]

\* the requests of the borrow specification: offset unset or 2, length unset
\* or 2 (out of bounds at offset 2 in a file of three bytes)
BorrowRequests ==
    { ExternalDataInfo(l, o, n) :
        l \in Locations, o \in { None, Some(2) }, n \in { None, Some(2) } }

\* load_data returns r
Returned(r, hit) ==
    /\ extResult' = [info |-> frame.info, result |-> r, hit |-> hit]
    /\ frame' = NoFrame

\* loader.load_data(info) is called
BorrowCall ==
    /\ frame.pc = "idle"
    /\ \E info \in BorrowRequests :
          /\ (info.location \notin DOMAIN cache /\ files[info.location].exists)
                => reads[info.location] < MaxReads
          /\ frame' = [frame EXCEPT !.pc = "lookup", !.info = info]
    /\ UNCHANGED <<msg, loadResult, model, orderVars, queryVars, target, files,
                   cache, reads, extResult, borrow>>

\* `let cache = self.cache.borrow(); if let Some(cached_data) = cache.get(..)`
Lookup ==
    /\ frame.pc = "lookup"
    /\ IF ~CanBorrow(borrow)
       THEN frame' = [frame EXCEPT !.pc = "panic"] /\ UNCHANGED borrow
       ELSE /\ borrow' = borrow_shared(borrow)
            /\ frame' = [frame EXCEPT !.pc =
                            IF frame.info.location \in DOMAIN cache
                            THEN "hit" ELSE "miss"]
    /\ UNCHANGED <<msg, loadResult, model, orderVars, queryVars, target, files,
                   cache, reads, extResult>>

\* `return self.slice_data(cached_data, info)`: the slice is taken under the
\* shared borrow, and the guard is dropped as the function returns
HitReturn ==
    /\ frame.pc = "hit"
    /\ Returned(slice_data(cache[frame.info.location], frame.info, target), TRUE)
    /\ borrow' = drop_ref(borrow)
    /\ UNCHANGED <<msg, loadResult, model, orderVars, queryVars, target, files,
                   cache, reads>>

\* the block of the lookup ends without a hit: its guard is dropped
ScopeEnd ==
    /\ frame.pc = "miss"
    /\ borrow' = drop_ref(borrow)
    /\ frame' = [frame EXCEPT !.pc = "load_file"]
    /\ UNCHANGED <<msg, loadResult, model, orderVars, queryVars, target, files,
                   cache, reads, extResult>>

\* `let file_data = self.load_file(&file_path)?`
LoadFile ==
    /\ frame.pc = "load_file"
    /\ LET r == load_file(files, frame.info.location) IN
       IF r.status = "Err"
       THEN Returned(r, FALSE) /\ UNCHANGED reads
       ELSE /\ frame' = [frame EXCEPT !.pc = "slice", !.file_data = r.value]
            /\ reads' = [reads EXCEPT ![frame.info.location] = @ + 1]
            /\ UNCHANGED extResult
    /\ UNCHANGED <<msg, loadResult, model, orderVars, queryVars, target, files,
                   cache, borrow>>

\* `let slice = self.slice_data(&file_data, info)?`
Slice ==
    /\ frame.pc = "slice"
    /\ LET r == slice_data(frame.file_data, frame.info, target) IN
       IF r.status = "Err"
       THEN Returned(r, FALSE)
       ELSE /\ frame' = [frame EXCEPT !.pc = "insert", !.slice = r.value]
            /\ UNCHANGED extResult
    /\ UNCHANGED <<msg, loadResult, model, orderVars, queryVars, target, files,
                   cache, reads, borrow>>

\* `let mut cache = self.cache.borrow_mut(); cache.insert(location, file_data)`
CacheInsert ==
    /\ frame.pc = "insert"
    /\ IF ~CanBorrowMut(borrow)
       THEN frame' = [frame EXCEPT !.pc = "panic"] /\ UNCHANGED <<borrow, cache>>
       ELSE /\ borrow' = borrow_mut(borrow)
            /\ cache' = Insert(cache, frame.info.location, frame.file_data)
            /\ frame' = [frame EXCEPT !.pc = "return"]
    /\ UNCHANGED <<msg, loadResult, model, orderVars, queryVars, target, files,
                   reads, extResult>>

\* `Ok(slice)`: the RefMut guard is dropped as the function returns
OkReturn ==
    /\ frame.pc = "return"
    /\ Returned(Ok(frame.slice), FALSE)
    /\ borrow' = drop_ref_mut(borrow)
    /\ UNCHANGED <<msg, loadResult, model, orderVars, queryVars, target, files,
                   cache, reads>>

InitBorrow == InitExt

NextBorrow ==
    \/ BorrowCall
    \/ Lookup
    \/ HitReturn
    \/ ScopeEnd
    \/ LoadFile
    \/ Slice
    \/ CacheInsert
    \/ OkReturn

SpecBorrow == InitBorrow /\ [][NextBorrow]_vars

----------------------------------------------------------------------------
(* Borrow properties *)

\* C29: load_data never takes the mutable borrow of the cache while a shared
\* borrow is live: no reachable state has both borrows live, and no borrow
\* panics, on the hit path, the miss path and every error path.
C29_NoDoubleBorrow ==
    /\ frame.pc # "panic"
    /\ ~(borrow.mutable /\ borrow.shared > 0)
    /\ frame.pc = "idle" => borrow = NoBorrow

\* the mutable borrow is live on a miss path that got past the lookup, in a
\* loader that has already returned an error
C29_Witness ==
    /\ frame.pc = "return"
    /\ borrow.mutable
    /\ extResult # <<>>
    /\ extResult.result.status = "Err"

----------------------------------------------------------------------------
(* External-data metadata: ExternalDataInfo::from_key_value_pairs *)

\* the largest number of key-value pairs of a metadata list
MaxPairs == 3

\* Strings are sequences of one-character strings.  The value of a decimal
\* digit, and -1 for any other character.
to_digit(c) ==
    CASE c = "0" -> 0 [] c = "1" -> 1 [] c = "2" -> 2 [] c = "3" -> 3
      [] c = "4" -> 4 [] c = "5" -> 5 [] c = "6" -> 6 [] c = "7" -> 7
      [] c = "8" -> 8 [] c = "9" -> 9 [] OTHER -> -1

\* the digit loop of the integer parser: multiply by ten and add, failing
\* on a character that is no digit and on overflow of u64
RECURSIVE parse_digits(_, _)
parse_digits(digits, result) ==
    IF digits = <<>> THEN Some(result)
    ELSE LET x == to_digit(Head(digits)) IN
         IF x < 0 THEN None
         ELSE IF result * 10 + x > 2 ^ U64Bits - 1 THEN None
         ELSE parse_digits(Tail(digits), result * 10 + x)

\* value.parse::<u64>().ok(): the empty string and a lone sign fail, one
\* leading "+" is skipped, "-" is no digit of an unsigned number
parse_u64(value) ==
    IF value = <<>> THEN None
    ELSE IF Len(value) = 1 /\ Head(value) \in { "+", "-" } THEN None
    ELSE IF Head(value) = "+" THEN parse_digits(Tail(value), 0)
    ELSE parse_digits(value, 0)

\* a StringStringEntryProto: an optional key and an optional value
StringStringEntryProto(key, value) == [key |-> key, value |-> value]

\* the parsed fields before the location test
NoFields == [location |-> None, offset |-> None, length |-> None]

\* a variant of the pair loop in which the first occurrence of a key decides
RECURSIVE parse_pairs_first_wins(_, _)
parse_pairs_first_wins(pairs, f) ==
    IF pairs = <<>> THEN f
    ELSE LET key == unwrap_or(Head(pairs).key, "")
             value == unwrap_or(Head(pairs).value, <<>>)
             later == parse_pairs_first_wins(Tail(pairs), NoFields)
             here ==
               CASE key = "location" -> [NoFields EXCEPT !.location = Some(value)]
                 [] key = "offset" -> [NoFields EXCEPT !.offset = parse_u64(value)]
                 [] key = "length" -> [NoFields EXCEPT !.length = parse_u64(value)]
                 [] OTHER -> NoFields
         IN [location |-> IF key = "location" THEN here.location ELSE later.location,
             offset |-> IF key = "offset" THEN here.offset ELSE later.offset,
             length |-> IF key = "length" THEN here.length ELSE later.length]

\* the loop over the pairs: each known key assigns its field, any other key
\* (an absent key reads as "") is skipped
RECURSIVE parse_pairs(_, _)
parse_pairs(pairs, f) ==
    IF pairs = <<>> THEN f
    ELSE LET key == unwrap_or(Head(pairs).key, "")
             value == unwrap_or(Head(pairs).value, <<>>)
         IN parse_pairs(Tail(pairs),
               CASE key = "location" -> [f EXCEPT !.location = Some(value)]
                 [] key = "offset" -> [f EXCEPT !.offset = parse_u64(value)]
                 [] key = "length" -> [f EXCEPT !.length = parse_u64(value)]
                 [] OTHER -> f)

\* ExternalDataInfo::from_key_value_pairs
from_key_value_pairs(pairs) ==
    LET f == parse_pairs(pairs, NoFields) IN
    IF f.location = None
    THEN Err("InvalidModel", 0, <<>>)
    ELSE Ok(ExternalDataInfo(f.location[1], f.offset, f.length))

----------------------------------------------------------------------------
(* The metadata specification: from_key_value_pairs on every bounded list *)

\* the value strings of a numeric key: no value (read as ""), "3", "03",
\* "+3", "9" (too large for the u64 of the model), "3x" and "-3"
NumericValues ==
    { None, Some(<<"3">>), Some(<<"0", "3">>), Some(<<"+", "3">>),
      Some(<<"9">>), Some(<<"3", "x">>), Some(<<"-", "3">>) }

\* the pairs of a list: a location with or without a value, an offset or a
\* length with a numeric value string, a key the parser does not know, and
\* a pair without a key
KeyValuePairs ==
    { StringStringEntryProto(Some("location"), v) : v \in { None, Some(<<"a">>) } }
    \cup { StringStringEntryProto(Some(k), v) :
             k \in { "offset", "length" }, v \in NumericValues }
    \cup { StringStringEntryProto(Some("checksum"), Some(<<"3">>)),
           StringStringEntryProto(None, Some(<<"3">>)) }

\* ExternalDataInfo::from_key_value_pairs(pairs, loader)
FromKeyValuePairs ==
    /\ ret = <<>>
    /\ ret' = from_key_value_pairs(arg)
    /\ UNCHANGED <<msg, loadResult, model, orderVars, arg, dataResult, calls,
                   extVars>>

InitMeta ==
    /\ msg = NoMsg
    /\ loadResult = NoLoad
    /\ model = NoModel
    /\ alg = "idle"
    /\ indegree = <<>>
    /\ queue = <<>>
    /\ ordered = <<>>
    /\ readyRound = <<>>
    /\ topoResult = NoResult
    /\ execResult = NoResult
    /\ \E n \in 0..MaxPairs : arg \in [1..n -> KeyValuePairs]
    /\ ret = <<>>
    /\ dataResult = <<>>
    /\ calls = 0
    /\ LoaderIdle

NextMeta == FromKeyValuePairs

SpecMeta == InitMeta /\ [][NextMeta]_vars

----------------------------------------------------------------------------
(* Metadata properties *)

\* the positions of the pairs whose key is k
Occurrences(pairs, k) == { i \in DOMAIN pairs : pairs[i].key = Some(k) }

\* the value string of the last pair whose key is k (absent reads as "")
LastValue(pairs, k) == unwrap_or(pairs[Max(Occurrences(pairs, k))].value, <<>>)

\* an unsigned decimal: digits only, after an optional "+", and at least one
DecimalDigits(v) == IF v # <<>> /\ Head(v) = "+" THEN Tail(v) ELSE v

IsUnsignedDecimal(v) ==
    /\ DecimalDigits(v) # <<>>
    /\ \A k \in DOMAIN DecimalDigits(v) : to_digit(DecimalDigits(v)[k]) >= 0

\* the number an unsigned decimal denotes
RECURSIVE DecimalValue(_)
DecimalValue(d) ==
    IF d = <<>> THEN 0
    ELSE DecimalValue(SubSeq(d, 1, Len(d) - 1)) * 10 + to_digit(d[Len(d)])

\* what the pairs say about a numeric field: unset when the key is absent,
\* or when its last value is no unsigned decimal or does not fit u64
NumericField(pairs, k) ==
    IF Occurrences(pairs, k) = {} THEN None
    ELSE LET v == LastValue(pairs, k) IN
         IF IsUnsignedDecimal(v) /\ DecimalValue(DecimalDigits(v)) <= 2 ^ U64Bits - 1
         THEN Some(DecimalValue(DecimalDigits(v)))
         ELSE None

\* C24: without a `location` key the metadata is rejected as an invalid
\* model; otherwise parsing succeeds, each field is decided by the last
\* occurrence of its key, an offset or length whose value is absent or no
\* valid unsigned decimal is unset, and other keys have no effect.
C24_MetadataParsing ==
    ret # <<>> =>
        IF Occurrences(arg, "location") = {}
        THEN ret.status = "Err" /\ ret.kind = "InvalidModel"
        ELSE /\ ret.status = "Ok"
             /\ ret.value.location = LastValue(arg, "location")
             /\ ret.value.offset = NumericField(arg, "offset")
             /\ ret.value.length = NumericField(arg, "length")

\* a list with a location whose offset key is repeated, an earlier
\* occurrence carrying a number and the last one none: the offset is unset
C24_Witness ==
    /\ ret # <<>>
    /\ ret.status = "Ok"
    /\ \E i \in Occurrences(arg, "offset") :
          /\ i < Max(Occurrences(arg, "offset"))
          /\ parse_u64(unwrap_or(arg[i].value, <<>>)) # None
    /\ ~IsUnsignedDecimal(LastValue(arg, "offset"))
    /\ ret.value.offset = None

----------------------------------------------------------------------------
(* Further scheduling properties *)

\* two emitted operations that entered the frontier in the same iteration
\* (0: the initial frontier; r: released when ordered[r] was dequeued)
ReadyTogether(i, j) ==
    /\ i \in Range(ordered)
    /\ j \in Range(ordered)
    /\ i # j
    /\ readyRound[i] = readyRound[j]

UsesBefore(ops, d, i, j) ==
    \A k1, k2 \in DOMAIN ops[d].outputs :
        ( /\ ops[d].outputs[k1] # ""
          /\ ops[d].outputs[k1] \in Range(ops[i].inputs)
          /\ ops[d].outputs[k2] # ""
          /\ ops[d].outputs[k2] \in Range(ops[j].inputs) )
        => (k1 < k2 \/ (k1 = k2 /\ i < j))

C25_BoundedLoop ==
    /\ [](alg # "idle" =>
            /\ Len(ordered) <= Len(model.operations)
            /\ \A i \in DOMAIN model.operations : Count(ordered \o queue, i) <= 1
            /\ \A i \in DOMAIN indegree : indegree[i] >= 0)
    /\ [][(alg # "idle" /\ alg' = alg) =>
            /\ Len(ordered') = Len(ordered) + 1
            /\ Len(ordered') + Len(queue') <= Len(model.operations)]_vars

\* execution_order has emptied its frontier on a graph of MaxOps operations
\* with a cycle, having emitted some of them but not all
C25_Witness ==
    /\ alg = "exec"
    /\ queue = <<>>
    /\ Len(model.operations) = MaxOps
    /\ HasCycle(model.operations)
    /\ ordered # <<>>
    /\ Len(ordered) < MaxOps

\* C26: topological_order returns Ok exactly when execution_order returns
\* Ok on the same model, and then the two results are permutations of the
\* same operations: each lists every operation of the model exactly once.
C26_OrdersAgree ==
    (topoResult.status # "none" /\ execResult.status # "none") =>
        /\ topoResult.status = execResult.status
        /\ topoResult.status = "Ok" =>
              /\ IsPermutation(model.operations, topoResult.order)
              /\ IsPermutation(model.operations, execResult.order)
              /\ Range(topoResult.order) = Range(execResult.order)

\* both orderings succeeded on a model of MaxOps operations and returned
\* different orders
C26_Witness ==
    /\ topoResult.status = "Ok"
    /\ execResult.status = "Ok"
    /\ Len(model.operations) = MaxOps
    /\ topoResult.order # execResult.order

----------------------------------------------------------------------------
(* Further data properties *)

\* C28: into_data() fails in exactly the cases where data() fails on the
\* same tensor, with the same error, and otherwise returns the same variant
\* holding the same bytes as data().into_owned().
C28_AccessorsAgree ==
    (dataResult # <<>> /\ dataResult.op = "into_data") =>
        LET borrowed == data(dataResult.self) IN
        IF borrowed.status = "Err"
        THEN dataResult.result = borrowed
        ELSE /\ dataResult.result.status = "Ok"
             /\ dataResult.result.value = into_owned(borrowed.value)
             /\ dataResult.result.value.variant = borrowed.value.variant
             /\ dataResult.result.value.bytes = borrowed.value.bytes
             /\ dataResult.result.value.parts = borrowed.value.parts

\* into_data() returned an owned Numeric view with bytes, from the typed
\* array of a tensor whose data() view borrows
C28_Witness ==
    /\ dataResult # <<>>
    /\ dataResult.op = "into_data"
    /\ dataResult.result.status = "Ok"
    /\ dataResult.result.value.variant = "Numeric"
    /\ dataResult.result.value.bytes # <<>>
    /\ data(dataResult.self).value.cow = "Borrowed"

=============================================================================
